---- MODULE Spec2Model ----
(***************************************************************************)
(* Virtual-memory subsystem: two-level page table (kern/vm/vm.c), address  *)
(* spaces with their region lists and the loader hooks (addrspace.c), and  *)
(* the TLB-miss handler vm_fault.                                          *)
(*                                                                         *)
(* Addresses are scaled so that TLC can enumerate them: a virtual address  *)
(* has 2 offset bits, 2 level-2 index bits and 2 level-1 index bits        *)
(* (the source has 12 + 10 + 10).  The kernel segment is the upper half of *)
(* the address space, as on MIPS.  A TLB-low word keeps the frame address  *)
(* in the bits above the page offset and DIRTY, VALID inside the offset    *)
(* bits, as on MIPS.                                                       *)
(***************************************************************************)
EXTENDS Integers, Sequences, FiniteSets, TLC

\* ---------------------------------------------------------------- constants
\* scaled: PAGE_SIZE and TABLE_SIZE with the address bits, MIPS_KSEG0 as the
\* middle of the address space, STACK_NPAGES and NUM_TLB (the flush loops and
\* tlb_random range over its slots) to the smallest values that keep their role
PAGE_SIZE == 4
TABLE_SIZE == 4
MIPS_KSEG0 == 32
USERSTACK == MIPS_KSEG0
STACK_NPAGES == 2
NUM_TLB == 1
IPL_NONE == 0
IPL_HIGH == 1
TLBLO_DIRTY == 2
TLBLO_VALID == 1
RF_R == 4
RF_W == 2
RF_X == 1

\* ------------------------------------------------------------------- bounds
\* frames that are free when the first process starts (frame f is at
\* f*PAGE_SIZE; physical address 0 is never handed out: 0 is the allocator's
\* failure value)
BootFrames == 2
\* frames the rest of the kernel holds when the first process starts, and has
\* given back by the time of a fork
KernelFrames == 2
\* region records the kernel heap can hold, over all address spaces
HeapRegions == 2
\* as_prepare_load calls that may be outstanding on one permission word
MaxPrepare == 1
\* the address-space records the kernel heap can hold
AsIds == {"as1", "as2"}

Frames == 1..(BootFrames + KernelFrames)
NULL == <<>>
NOAS == "noas"

\* ------------------------------------------------------------ bit arithmetic
\* b is a single bit (a power of two)
HasBit(x, b) == (x \div b) % 2 = 1
XorBit(x, b) == IF HasBit(x, b) THEN x - b ELSE x + b
\* x & PAGE_FRAME
PageFrame(x) == x - (x % PAGE_SIZE)
\* vaddr >> 22
IndexT1(vaddr) == vaddr \div (PAGE_SIZE * TABLE_SIZE)
\* (vaddr >> 12) & (~PAGE_FRAME >> 2)
IndexT2(vaddr) == (vaddr \div PAGE_SIZE) % TABLE_SIZE

\* TLBHI_INVALID(i), TLBLO_INVALID(): an entry in the kernel segment, which no
\* user address matches
TLBHI_INVALID(i) == MIPS_KSEG0 + i * PAGE_SIZE
TLBLO_INVALID == 0
InvalidTlb == [i \in 0..(NUM_TLB - 1) |-> [hi |-> TLBHI_INVALID(i), lo |-> TLBLO_INVALID]]

VARIABLES
    as,         \* as[a]: the address-space record a, when a \in live
    live,       \* the address-space records that exist
    asfree,     \* the address-space records the kernel heap can still give
    curas,      \* proc_getas() of curproc: an id, or NOAS (no process, or a process without one)
    l2,         \* kernel memory: l2[f] is the level-2 table held in frame f, NULL if none
    used,       \* the frames the page allocator has handed out and not got back
    framedata,  \* per frame: "zero" (all bytes 0) or "stale" (a previous owner's bytes)
    tlb,        \* the hardware TLB
    pc,         \* "idle", or the place inside the operation that is running
    halted,     \* the kernel has panicked (a KASSERT failed, a fatal kernel fault)
    last,       \* the operation that ran last, its arguments and its return value
    hist,       \* history: per region, the r|w|x it was defined with and its load state
    ipl,        \* the interrupt priority level of the CPU (curthread->t_curspl)
    ctx         \* the vm_fault that a trap handler may preempt: its place and its locals

vars == <<as, live, asfree, curas, l2, used, framedata, tlb, pc, halted, last, hist, ipl, ctx>>

\* ------------------------------------------------------- interrupt priority
\* splhigh(): the level it raises to (it returns the level in force before)
splhigh == IPL_HIGH
\* a faulty variant of splx: it lowers the level instead of restoring it
splxLower(spl) == IPL_NONE
\* splx(spl): the level in force afterwards
splx(spl) == spl

\* the calls prog made in order at level `level`, spl being the local variable
\* that holds what splhigh returned: the calls with the level each one ran at,
\* and the level at the end
RECURSIVE RunSpl(_, _, _, _)
RunSpl(prog, level, spl, events) ==
    IF prog = <<>> THEN [ipl |-> level, events |-> events]
    ELSE IF Head(prog) = "splhigh"
    THEN RunSpl(Tail(prog), splhigh, level, Append(events, [ev |-> "splhigh", ipl |-> splhigh]))
    ELSE IF Head(prog) = "splx"
    THEN RunSpl(Tail(prog), splx(spl), spl, Append(events, [ev |-> "splx", ipl |-> splx(spl)]))
    ELSE RunSpl(Tail(prog), level, spl, Append(events, [ev |-> Head(prog), ipl |-> level]))
\* spl = splhigh(); the TLB writes; splx(spl)
Masked(writes) == RunSpl(<<"splhigh">> \o writes \o <<"splx">>, ipl, ipl, <<>>)
\* the flush loop: tlb_write for every slot
FlushWrites == [i \in 1..NUM_TLB |-> "tlb_write"]
\* no vm_fault is under way that a handler could preempt
NoCtx == [pc |-> "none", addr |-> 0, entryLo |-> 0, i |-> 0]

\* ------------------------------------------------------------ page allocator
\* alloc_kpages(1) / alloc_upages(1): the lowest free frame, or 0 when none is left
AllocPage(u) ==
    IF Frames \ u = {} THEN 0
    ELSE CHOOSE f \in Frames \ u : \A g \in Frames \ u : f <= g
Take(u, f) == IF f = 0 THEN u ELSE u \cup {f}

\* ---------------------------------------------------------------- page table
ZeroTable == [j \in 1..TABLE_SIZE |-> 0]
EmptyPagetable == [i \in 0..(TABLE_SIZE - 1) |-> 0]

\* pagetable_lookup: the entry for vaddr, 0 if the level-2 table or the entry is absent
pagetable_lookup(pagetable, mem, vaddr) ==
    IF pagetable[IndexT1(vaddr)] = 0 THEN 0
    ELSE IF mem[pagetable[IndexT1(vaddr)]][IndexT2(vaddr) + 1] = 0 THEN 0
    ELSE mem[pagetable[IndexT1(vaddr)]][IndexT2(vaddr) + 1]

\* a faulty variant of pagetable_insert: the entry is stored only when the
\* level-2 table has just been allocated
pagetable_insertOnlyNew(pagetable, mem, vaddr, entry, page) ==
    LET indexT1 == IndexT1(vaddr)
        indexT2 == IndexT2(vaddr)
    IN  IF pagetable[indexT1] = 0
        THEN [pagetable |-> [pagetable EXCEPT ![indexT1] = page],
              mem |-> [mem EXCEPT ![page] = [ZeroTable EXCEPT ![indexT2 + 1] = entry]]]
        ELSE [pagetable |-> pagetable, mem |-> mem]

\* pagetable_insert, given the page alloc_kpages(1) returns when the level-2
\* table is absent (page # 0; the caller models the NULL dereference of page = 0)
pagetable_insert(pagetable, mem, vaddr, entry, page) ==
    LET indexT1 == IndexT1(vaddr)
        indexT2 == IndexT2(vaddr)
        pt1 == IF pagetable[indexT1] = 0
               THEN [pagetable EXCEPT ![indexT1] = page]
               ELSE pagetable
        mem1 == IF pagetable[indexT1] = 0
                THEN [mem EXCEPT ![page] = ZeroTable]
                ELSE mem
    IN  [pagetable |-> pt1,
         mem |-> [mem1 EXCEPT ![pt1[indexT1]][indexT2 + 1] = entry]]

\* a faulty variant of UpdateLoop: the jump over an absent level-2 table does
\* not take off the distance already gone into it
RECURSIVE UpdateLoopLongJump(_, _, _, _)
UpdateLoopLongJump(pagetable, mem, i, reg_vend) ==
    IF i >= reg_vend THEN mem
    ELSE IF pagetable[IndexT1(i)] = 0
    THEN UpdateLoopLongJump(pagetable, mem, i + TABLE_SIZE * PAGE_SIZE, reg_vend)
    ELSE LET f == pagetable[IndexT1(i)]
             indexT2 == IndexT2(i)
         IN  UpdateLoopLongJump(pagetable,
                                IF mem[f][indexT2 + 1] # 0
                                THEN [mem EXCEPT ![f][indexT2 + 1] = XorBit(@, TLBLO_DIRTY)]
                                ELSE mem,
                                i + PAGE_SIZE, reg_vend)

\* the loop of pagetable_update, from i up to reg_vend
RECURSIVE UpdateLoop(_, _, _, _)
UpdateLoop(pagetable, mem, i, reg_vend) ==
    IF i >= reg_vend THEN mem
    ELSE IF pagetable[IndexT1(i)] = 0
    THEN UpdateLoop(pagetable, mem,
                    (i + TABLE_SIZE * PAGE_SIZE - (i % (TABLE_SIZE * PAGE_SIZE)) - PAGE_SIZE)
                        + PAGE_SIZE,
                    reg_vend)
    ELSE LET f == pagetable[IndexT1(i)]
             indexT2 == IndexT2(i)
         IN  UpdateLoop(pagetable,
                        IF mem[f][indexT2 + 1] # 0
                        THEN [mem EXCEPT ![f][indexT2 + 1] = XorBit(@, TLBLO_DIRTY)]
                        ELSE mem,
                        i + PAGE_SIZE, reg_vend)

\* KASSERT(reg_vend <= MIPS_KSEG0) of pagetable_update
UpdateAsserts(reg_vbase, reg_npages) == reg_vbase + reg_npages * PAGE_SIZE <= MIPS_KSEG0

\* pagetable_update: kernel memory after the call (when its KASSERT holds)
pagetable_update(pagetable, mem, reg_vbase, reg_npages) ==
    UpdateLoop(pagetable, mem, reg_vbase, reg_vbase + reg_npages * PAGE_SIZE)

\* ------------------------------------------------------------------- regions
RECURSIVE BitAnd(_, _)
BitAnd(x, y) ==
    IF x = 0 \/ y = 0 THEN 0
    ELSE (IF x % 2 = 1 /\ y % 2 = 1 THEN 1 ELSE 0) + 2 * BitAnd(x \div 2, y \div 2)
RECURSIVE BitOr(_, _)
BitOr(x, y) ==
    IF x = 0 THEN y
    ELSE IF y = 0 THEN x
    ELSE (IF x % 2 = 1 \/ y % 2 = 1 THEN 1 ELSE 0) + 2 * BitOr(x \div 2, y \div 2)

\* a faulty variant of NewRegion: the size is not rounded up to whole pages
NewRegionNoRoundUp(vaddr, memsize, readable, writeable, executable) ==
    [reg_vbase |-> PageFrame(vaddr),
     reg_npages |-> (memsize + (vaddr % PAGE_SIZE)) \div PAGE_SIZE,
     permissions |-> BitOr(BitOr(readable, writeable), executable)]

\* the region record as_define_region builds from its arguments
NewRegion(vaddr, memsize, readable, writeable, executable) ==
    LET memsize1 == memsize + (vaddr % PAGE_SIZE)
        vaddr1 == PageFrame(vaddr)
        memsize2 == PageFrame(memsize1 + PAGE_SIZE - 1)
    IN  [reg_vbase |-> vaddr1,
         reg_npages |-> memsize2 \div PAGE_SIZE,
         permissions |-> BitOr(BitOr(readable, writeable), executable)]

\* a faulty variant of InRegion: the test of the lower end is missing
InRegionNoLowerEnd(reg, vaddr) ==
    vaddr < reg.reg_vbase + reg.reg_npages * PAGE_SIZE

\* faultaddress >= reg_vbase && faultaddress < reg_vbase + reg_npages*PAGE_SIZE
InRegion(reg, vaddr) ==
    /\ vaddr >= reg.reg_vbase
    /\ vaddr < reg.reg_vbase + reg.reg_npages * PAGE_SIZE

\* a faulty variant of FindRegion: the scan does not break at the first region
\* that contains faultaddress, so the last one wins
FindRegionLast(regions, vaddr) ==
    IF \E k \in 1..Len(regions) : InRegion(regions[k], vaddr)
    THEN CHOOSE k \in 1..Len(regions) :
            /\ InRegion(regions[k], vaddr)
            /\ \A m \in (k + 1)..Len(regions) : ~InRegion(regions[m], vaddr)
    ELSE 0

\* the region scan of vm_fault: the index of the first region, in list order,
\* that contains faultaddress; 0 when cur_reg ends NULL
FindRegion(regions, vaddr) ==
    IF \E k \in 1..Len(regions) : InRegion(regions[k], vaddr)
    THEN CHOOSE k \in 1..Len(regions) :
            /\ InRegion(regions[k], vaddr)
            /\ \A m \in 1..(k - 1) : ~InRegion(regions[m], vaddr)
    ELSE 0

\* cur_reg->permissions << 3 | RF_R | RF_W
PrepareWord(permissions) == BitOr(BitOr(permissions * 8, RF_R), RF_W)
\* a faulty variant of CompleteWord: the mask without the shift
CompleteWordNoShift(permissions) == permissions % 8
\* cur_reg->permissions >> 3 & 0x7
CompleteWord(permissions) == (permissions \div 8) % 8

\* history of a region's permission word: "defined" (no load outstanding),
\* "loading" (one as_prepare_load outstanding), "broken" (anything else)
HistPrepare(h) ==
    [h EXCEPT !.load = IF h.load = "defined" THEN "loading" ELSE "broken"]
HistComplete(h) ==
    [h EXCEPT !.load = IF h.load = "loading" THEN "defined" ELSE "broken"]

\* ------------------------------------------------------------------- inputs
\* the calls of as_define_region the loader makes
DefineInputs ==
    { \* text: not page aligned, from page 3 to USERSTACK: it lies across two
      \* level-2 tables and overlaps the stack
      [vaddr |-> 3 * PAGE_SIZE + 1, memsize |-> USERSTACK - (3 * PAGE_SIZE + 1),
       readable |-> RF_R, writeable |-> 0, executable |-> RF_X],
      \* no permission at all
      [vaddr |-> PAGE_SIZE, memsize |-> PAGE_SIZE,
       readable |-> 0, writeable |-> 0, executable |-> 0] }

FaultKinds == {"READ", "WRITE", "READONLY", "OTHER"}
\* page 3 (text, under the first level-2 table), and under the second level-2
\* table page 5 (text) and pages 6 and 7 (text and stack)
FaultAddrs == {3 * PAGE_SIZE + 2, 5 * PAGE_SIZE, 6 * PAGE_SIZE + 1, USERSTACK - 1}

\* ------------------------------------------------------------------- records
Done(op, a, ret) ==
    [op |-> op, as |-> a, ret |-> ret, addr |-> 0, path |-> "", events |-> <<>>]
\* path: the return statement of vm_fault that was reached; addr: the fault
\* address, once vm_fault has looked at it
Fault(ret, addr, path) ==
    [op |-> "vm_fault", as |-> curas, ret |-> ret, addr |-> addr, path |-> path,
     events |-> <<>>]

\* as_create: the address space it returns, its region list empty and its
\* level-1 table zero filled
NoAs == [regions |-> <<>>, pagetable |-> EmptyPagetable]
\* kmalloc(sizeof(struct addrspace)): the record the heap gives next
NextAs == CHOOSE a \in asfree : TRUE
\* kmalloc(sizeof(struct region)) succeeds while the heap has room for n more
RegionRecords == Len(as["as1"].regions) + Len(as["as2"].regions)
HeapRoom(n) == RegionRecords + n <= HeapRegions

Init ==
    /\ as = [a \in AsIds |-> NoAs]
    /\ live = {"as1"}
    /\ asfree = {}
    /\ curas = "as1"
    /\ l2 = [f \in Frames |-> NULL]
    /\ used = {f \in Frames : f > BootFrames}
    /\ framedata = [f \in Frames |-> "stale"]
    /\ tlb = InvalidTlb
    /\ pc = "idle"
    /\ halted = FALSE
    /\ last = Done("as_create", "as1", "OK")
    /\ hist = [a \in AsIds |-> <<>>]
    /\ ipl = IPL_NONE
    /\ ctx = NoCtx

Running == ~halted /\ pc = "idle"

\* a KASSERT fails or the kernel takes a fatal fault: nothing runs afterwards
Panic(op, a) ==
    /\ halted' = TRUE
    /\ last' = Done(op, a, "PANIC")


\* --------------------------------------------------------- as_define_region
as_define_region(a, in) ==
    /\ Running
    /\ a \in live
    /\ IF BitOr(BitOr(in.readable, in.writeable), in.executable) = 0
       THEN /\ last' = Done("as_define_region", a, "EINVAL")
            /\ UNCHANGED <<as, hist>>
       ELSE IF ~HeapRoom(1)
       THEN /\ last' = Done("as_define_region", a, "ENOMEM")
            /\ UNCHANGED <<as, hist>>
       ELSE LET new_reg == NewRegion(in.vaddr, in.memsize, in.readable, in.writeable,
                                     in.executable)
            IN  /\ as' = [as EXCEPT ![a].regions = Append(@, new_reg)]
                /\ hist' = [hist EXCEPT ![a] =
                               Append(@, [defined |-> new_reg.permissions,
                                          load |-> "defined"])]
                /\ last' = Done("as_define_region", a, "OK")
    /\ UNCHANGED <<live, asfree, curas, l2, used, framedata, tlb, pc, halted, ipl, ctx>>

\* ---------------------------------------------------------- as_define_stack
\* a faulty variant of StackInput: the stack is not writable
StackInputNoWrite ==
    [vaddr |-> USERSTACK - STACK_NPAGES * PAGE_SIZE, memsize |-> STACK_NPAGES * PAGE_SIZE,
     readable |-> RF_R, writeable |-> 0, executable |-> 0]

\* the arguments as_define_stack gives as_define_region
StackInput ==
    [vaddr |-> USERSTACK - STACK_NPAGES * PAGE_SIZE, memsize |-> STACK_NPAGES * PAGE_SIZE,
     readable |-> RF_R, writeable |-> RF_W, executable |-> 0]

as_define_stack(a) ==
    /\ Running
    /\ a \in live
    /\ IF ~HeapRoom(1)
       THEN /\ last' = [Done("as_define_stack", a, "ENOMEM") EXCEPT !.addr = USERSTACK]
            /\ UNCHANGED <<as, hist>>
       ELSE LET new_reg == NewRegion(StackInput.vaddr, StackInput.memsize,
                                     StackInput.readable, StackInput.writeable,
                                     StackInput.executable)
            IN  /\ as' = [as EXCEPT ![a].regions = Append(@, new_reg)]
                /\ hist' = [hist EXCEPT ![a] =
                               Append(@, [defined |-> new_reg.permissions,
                                          load |-> "defined"])]
                /\ last' = [Done("as_define_stack", a, "OK") EXCEPT !.addr = USERSTACK]
    /\ UNCHANGED <<live, asfree, curas, l2, used, framedata, tlb, pc, halted, ipl, ctx>>

\* ---------------------------------------------------------- as_prepare_load
PrepareRegions(regions) ==
    [k \in 1..Len(regions) |->
        [regions[k] EXCEPT !.permissions = PrepareWord(regions[k].permissions)]]

as_prepare_load(a) ==
    /\ Running
    /\ a \in live
    /\ \A k \in 1..Len(as[a].regions) : as[a].regions[k].permissions < 8 ^ MaxPrepare
    /\ IF as[a].regions = <<>>
       THEN /\ Panic("as_prepare_load", a)
            /\ UNCHANGED <<as, hist>>
       ELSE /\ as' = [as EXCEPT ![a].regions = PrepareRegions(@)]
            /\ hist' = [hist EXCEPT ![a] = [k \in 1..Len(@) |-> HistPrepare(@[k])]]
            /\ last' = Done("as_prepare_load", a, "OK")
            /\ UNCHANGED halted
    /\ UNCHANGED <<live, asfree, curas, l2, used, framedata, tlb, pc, ipl, ctx>>

\* --------------------------------------------------------- as_complete_load
\* the region loop of as_complete_load from region k on: the regions, their
\* history and kernel memory when the loop ends, and whether the KASSERT of
\* pagetable_update stopped it
RECURSIVE CompleteLoop(_, _, _, _, _)
CompleteLoop(regions, h, pagetable, mem, k) ==
    IF k > Len(regions) THEN [regions |-> regions, hist |-> h, mem |-> mem, ok |-> TRUE]
    ELSE LET word == CompleteWord(regions[k].permissions)
             regions1 == [regions EXCEPT ![k].permissions = word]
             h1 == [h EXCEPT ![k] = HistComplete(@)]
         IN  IF BitAnd(word, RF_W) = 0
             THEN IF UpdateAsserts(regions[k].reg_vbase, regions[k].reg_npages)
                  THEN CompleteLoop(regions1, h1, pagetable,
                                    pagetable_update(pagetable, mem, regions[k].reg_vbase,
                                                     regions[k].reg_npages),
                                    k + 1)
                  ELSE [regions |-> regions1, hist |-> h1, mem |-> mem, ok |-> FALSE]
             ELSE CompleteLoop(regions1, h1, pagetable, mem, k + 1)

\* as_complete_load up to the end of its region loop
as_complete_load(a) ==
    /\ Running
    /\ a \in live
    /\ IF as[a].regions = <<>>
       THEN /\ Panic("as_complete_load", a)
            /\ UNCHANGED <<as, hist, l2, pc>>
       ELSE LET r == CompleteLoop(as[a].regions, hist[a], as[a].pagetable, l2, 1)
            IN  /\ as' = [as EXCEPT ![a].regions = r.regions]
                /\ hist' = [hist EXCEPT ![a] = r.hist]
                /\ l2' = r.mem
                /\ IF r.ok
                   THEN /\ pc' = "flush"
                        /\ last' = Done("as_complete_load", a, "RUNNING")
                        /\ UNCHANGED halted
                   ELSE /\ Panic("as_complete_load", a)
                        /\ UNCHANGED pc
    /\ UNCHANGED <<live, asfree, curas, used, framedata, tlb, ipl, ctx>>

\* a faulty variant of FlushTlb: the loop stops one slot early
FlushTlbShort(t) ==
    [i \in 0..(NUM_TLB - 1) |->
        IF i < NUM_TLB - 1 THEN [hi |-> TLBHI_INVALID(i), lo |-> TLBLO_INVALID] ELSE t[i]]

\* the TLB after the flush loop: tlb_write(TLBHI_INVALID(i), TLBLO_INVALID(), i)
\* for every i < NUM_TLB
FlushTlb(t) == [i \in 0..(NUM_TLB - 1) |-> [hi |-> TLBHI_INVALID(i), lo |-> TLBLO_INVALID]]

\* as_complete_load from its TLB flush to its return
as_complete_load_flush ==
    /\ ~halted
    /\ pc = "flush"
    /\ tlb' = FlushTlb(tlb)
    /\ pc' = "idle"
    /\ ipl' = Masked(FlushWrites).ipl
    /\ last' = [last EXCEPT !.ret = "OK", !.events = Masked(FlushWrites).events]
    /\ UNCHANGED <<as, live, asfree, curas, l2, used, framedata, halted, hist, ctx>>

\* -------------------------------------------------------------- as_activate
\* proc_setas(a) followed by as_activate(), as the kernel does on a switch
as_activate(a) ==
    /\ Running
    /\ a \in live \cup {NOAS}
    /\ curas' = a
    /\ tlb' = IF a = NOAS THEN tlb ELSE FlushTlb(tlb)
    /\ ipl' = IF a = NOAS THEN ipl ELSE Masked(FlushWrites).ipl
    /\ last' = [Done("as_activate", a, "VOID") EXCEPT
                   !.events = IF a = NOAS THEN <<>> ELSE Masked(FlushWrites).events]
    /\ UNCHANGED <<as, live, asfree, l2, used, framedata, pc, halted, hist, ctx>>

\* ------------------------------------------------------------ as_deactivate
\* a faulty variant of as_deactivate: it returns without the flush loop
as_deactivateNoFlush ==
    /\ Running
    /\ last' = Done("as_deactivate", curas, "VOID")
    /\ UNCHANGED <<as, live, asfree, curas, l2, used, framedata, tlb, pc, halted, hist, ipl, ctx>>

as_deactivate ==
    /\ Running
    /\ tlb' = IF curas = NOAS THEN tlb ELSE FlushTlb(tlb)
    /\ ipl' = IF curas = NOAS THEN ipl ELSE Masked(FlushWrites).ipl
    /\ last' = [Done("as_deactivate", curas, "VOID") EXCEPT
                   !.events = IF curas = NOAS THEN <<>> ELSE Masked(FlushWrites).events]
    /\ UNCHANGED <<as, live, asfree, curas, l2, used, framedata, pc, halted, hist, ctx>>

\* a faulty variant of FreshEntry: TLBLO_VALID is left out of the entry of a
\* page that is not writable
FreshEntryNoValid(paddr, permissions) ==
    IF BitAnd(permissions, RF_W) # 0
    THEN BitOr(BitOr(paddr, TLBLO_VALID), TLBLO_DIRTY)
    ELSE paddr

\* ----------------------------------------------------------------- vm_fault
\* entryLo of a fresh mapping: paddr | TLBLO_VALID, and TLBLO_DIRTY when the
\* region is writable
FreshEntry(paddr, permissions) ==
    IF BitAnd(permissions, RF_W) # 0
    THEN BitOr(BitOr(paddr, TLBLO_VALID), TLBLO_DIRTY)
    ELSE BitOr(paddr, TLBLO_VALID)

\* a faulty variant of TlbHi: the offset in the page is not masked out
TlbHiNoMask(vaddr) == vaddr

\* faultaddress & TLBHI_VPAGE
TlbHi(vaddr) == PageFrame(vaddr)

\* a faulty variant of SwitchResult: the default case is missing
SwitchResultNoDefault(faulttype) ==
    IF faulttype = "READONLY" THEN "EFAULT" ELSE "break"

\* switch (faulttype): the value vm_fault returns from it, "break" for the
\* kinds that go on
SwitchResult(faulttype) ==
    IF faulttype = "READONLY" THEN "EFAULT"
    ELSE IF faulttype \in {"READ", "WRITE"} THEN "break"
    ELSE "EINVAL"

\* slot: the slot tlb_random picks
vm_fault(faulttype, faultaddress, slot) ==
    /\ Running
    /\ IF SwitchResult(faulttype) # "break"
       THEN /\ last' = Fault(SwitchResult(faulttype), 0,
                             IF faulttype = "READONLY" THEN "readonly" ELSE "badtype")
            /\ UNCHANGED <<as, l2, used, tlb, halted, ipl>>
       ELSE IF curas = NOAS
       THEN /\ last' = Fault("EFAULT", 0, "noas")
            /\ UNCHANGED <<as, l2, used, tlb, halted, ipl>>
       ELSE IF as[curas].regions = <<>>
       THEN \* KASSERT(as->regions != NULL)
            /\ halted' = TRUE
            /\ last' = Fault("PANIC", faultaddress, "assert")
            /\ UNCHANGED <<as, l2, used, tlb, ipl>>
       ELSE LET pagetable == as[curas].pagetable
                entryLo == pagetable_lookup(pagetable, l2, faultaddress)
                cur_reg == FindRegion(as[curas].regions, faultaddress)
            IN  IF entryLo # 0
                THEN /\ tlb' = [tlb EXCEPT ![slot] = [hi |-> TlbHi(faultaddress),
                                                     lo |-> entryLo]]
                     /\ ipl' = Masked(<<"tlb_random">>).ipl
                     /\ last' = [Fault("OK", faultaddress, "hit") EXCEPT
                                    !.events = Masked(<<"tlb_random">>).events]
                     /\ UNCHANGED <<as, l2, used, halted>>
                ELSE IF cur_reg = 0
                THEN /\ last' = Fault("EFAULT", faultaddress, "noregion")
                     /\ UNCHANGED <<as, l2, used, tlb, halted, ipl>>
                ELSE LET frame == AllocPage(used)
                         paddr == frame * PAGE_SIZE
                         used1 == Take(used, frame)
                         entry == FreshEntry(paddr,
                                             as[curas].regions[cur_reg].permissions)
                         page == IF pagetable[IndexT1(faultaddress)] = 0
                                 THEN AllocPage(used1) ELSE 0
                         \* the calls before the TLB is loaded, at the level
                         \* vm_fault was entered with
                         allocs == RunSpl(IF pagetable[IndexT1(faultaddress)] = 0
                                          THEN <<"alloc_upages", "alloc_kpages">>
                                          ELSE <<"alloc_upages">>, ipl, ipl, <<>>)
                     IN  IF pagetable[IndexT1(faultaddress)] = 0 /\ page = 0
                         THEN \* pagetable_insert stores through the NULL that
                              \* alloc_kpages returned: a fatal fault in the kernel
                              /\ halted' = TRUE
                              /\ used' = used1
                              /\ last' = [Fault("PANIC", faultaddress, "fresh") EXCEPT
                                             !.events = allocs.events]
                              /\ UNCHANGED <<as, l2, tlb, ipl>>
                         ELSE LET r == pagetable_insert(pagetable, l2, faultaddress,
                                                        entry, page)
                              IN  /\ as' = [as EXCEPT ![curas].pagetable = r.pagetable]
                                  /\ l2' = r.mem
                                  /\ used' = Take(used1, page)
                                  /\ tlb' = [tlb EXCEPT ![slot] =
                                                [hi |-> TlbHi(faultaddress), lo |-> entry]]
                                  /\ ipl' = Masked(<<"tlb_random">>).ipl
                                  /\ last' = [Fault("OK", faultaddress, "fresh") EXCEPT
                                                 !.events = allocs.events
                                                     \o Masked(<<"tlb_random">>).events]
                                  /\ UNCHANGED halted
    /\ UNCHANGED <<live, asfree, curas, framedata, pc, hist, ctx>>

\* ------------------------------------------------------------------ as_copy
\* the inner loop of as_copy over the entries j.. of one level-2 table
RECURSIVE CopyEntries(_, _, _, _)
CopyEntries(oldf, newf, j, st) ==
    IF j >= TABLE_SIZE \/ st.ret # "OK" THEN st
    ELSE IF st.mem[oldf][j + 1] # 0
    THEN LET frame == AllocPage(st.used)
             old == st.mem[oldf][j + 1]
             entryLo == IF BitAnd(old, TLBLO_DIRTY) # 0
                        THEN BitOr(BitOr(frame * PAGE_SIZE, TLBLO_VALID), TLBLO_DIRTY)
                        ELSE BitOr(frame * PAGE_SIZE, TLBLO_VALID)
         IN  IF frame = 0 THEN [st EXCEPT !.ret = "ENOMEM"]
             ELSE CopyEntries(oldf, newf, j + 1,
                     [st EXCEPT !.used = @ \cup {frame},
                                !.fd[frame] = IF old \div PAGE_SIZE \in Frames
                                              THEN st.fd[old \div PAGE_SIZE] ELSE "stale",
                                !.mem[newf][j + 1] = entryLo])
    ELSE CopyEntries(oldf, newf, j + 1, [st EXCEPT !.mem[newf][j + 1] = 0])

\* the outer loop of as_copy over the level-1 slots i..
RECURSIVE CopyTables(_, _, _)
CopyTables(oldpt, i, st) ==
    IF i >= TABLE_SIZE \/ st.ret # "OK" THEN st
    ELSE IF oldpt[i] # 0
    THEN LET page == AllocPage(st.used)
         IN  IF page = 0 THEN [st EXCEPT !.ret = "ENOMEM"]
             ELSE CopyTables(oldpt, i + 1,
                     CopyEntries(oldpt[i], page, 0,
                         [st EXCEPT !.used = @ \cup {page},
                                    !.pagetable[i] = page,
                                    !.mem[page] = ZeroTable]))
    ELSE CopyTables(oldpt, i + 1, [st EXCEPT !.pagetable[i] = 0])

\* the regions as_copy defines in newas: as_define_region with the low three
\* bits of each permission word
CopyRegion(reg) ==
    NewRegion(reg.reg_vbase, reg.reg_npages * PAGE_SIZE, BitAnd(reg.permissions, RF_R),
              BitAnd(reg.permissions, RF_W), BitAnd(reg.permissions, RF_X))

as_copy(old) ==
    /\ Running
    /\ old \in live
    /\ IF asfree = {}
       THEN \* as_create returned NULL
            /\ last' = Done("as_copy", old, "ENOMEM")
            /\ UNCHANGED <<as, live, asfree, l2, used, framedata, hist>>
       ELSE LET new == NextAs
                regs == as[old].regions
                \* the first region as_define_region refuses, if any
                bad == {k \in 1..Len(regs) :
                           CopyRegion(regs[k]).permissions = 0 \/ ~HeapRoom(k)}
            IN  IF bad # {}
                THEN LET k == CHOOSE m \in bad : \A q \in bad : m <= q
                     IN  \* return result: newas and the k - 1 regions it has are
                         \* never freed
                         /\ last' = Done("as_copy", old,
                                         IF CopyRegion(regs[k]).permissions = 0
                                         THEN "EINVAL" ELSE "ENOMEM")
                         /\ as' = [as EXCEPT ![new] =
                                      [regions |-> [m \in 1..(k - 1) |-> CopyRegion(regs[m])],
                                       pagetable |-> EmptyPagetable]]
                         /\ asfree' = asfree \ {new}
                         /\ UNCHANGED <<live, l2, used, framedata, hist>>
                ELSE LET st == CopyTables(as[old].pagetable, 0,
                                   [pagetable |-> EmptyPagetable, mem |-> l2,
                                    used |-> used, fd |-> framedata, ret |-> "OK"])
                     IN  /\ l2' = st.mem
                         /\ used' = st.used
                         /\ framedata' = st.fd
                         /\ asfree' = asfree \ {new}
                         /\ last' = [Done("as_copy", old, st.ret) EXCEPT !.path = new]
                         /\ as' = [as EXCEPT ![new] =
                                      [regions |-> [k \in 1..Len(regs) |->
                                                       CopyRegion(regs[k])],
                                       pagetable |-> st.pagetable]]
                         /\ IF st.ret = "OK"
                            THEN /\ hist' = [hist EXCEPT ![new] =
                                                [k \in 1..Len(regs) |->
                                                    [defined |-> CopyRegion(regs[k]).permissions,
                                                     load |-> "defined"]]]
                                 /\ live' = live \cup {new}
                            ELSE UNCHANGED <<live, hist>>
    /\ UNCHANGED <<curas, tlb, pc, halted, ipl, ctx>>

\* --------------------------------------------------------------- as_destroy
\* the level-2 tables of a page table, and the frame fields of the non-zero
\* entries they hold (one per entry: free_kpages is called once for each)
TablesOf(pagetable) == {pagetable[i] : i \in {n \in 0..(TABLE_SIZE - 1) : pagetable[n] # 0}}
EntriesOf(pagetable, mem) ==
    {<<i, j>> \in (0..(TABLE_SIZE - 1)) \X (1..TABLE_SIZE) :
        pagetable[i] # 0 /\ mem[pagetable[i]][j] # 0}
EntryFrame(pagetable, mem, e) == mem[pagetable[e[1]]][e[2]] \div PAGE_SIZE
\* the entries whose free_kpages call names a frame the allocator does not hold
\* at that moment: never handed out, or freed already by an earlier entry
BadFrees(pagetable, mem, u) ==
    {e \in EntriesOf(pagetable, mem) :
        \/ EntryFrame(pagetable, mem, e) \notin u
        \/ \E d \in EntriesOf(pagetable, mem) :
              /\ EntryFrame(pagetable, mem, d) = EntryFrame(pagetable, mem, e)
              /\ (d[1] < e[1] \/ (d[1] = e[1] /\ d[2] < e[2]))}

\* as_destroy on an address space that is not the current one (proc_destroy and
\* the failure paths of fork and exec detach it first).  tolerant: whether the
\* page allocator ignores a free_kpages of a frame it does not hold; otherwise
\* the kernel stops there
as_destroy(a, tolerant) ==
    /\ Running
    /\ a \in live
    /\ a # curas
    /\ LET pagetable == as[a].pagetable
           frames == {EntryFrame(pagetable, l2, e) : e \in EntriesOf(pagetable, l2)}
           bad == BadFrees(pagetable, l2, used)
       IN  IF bad # {} /\ ~tolerant
           THEN /\ halted' = TRUE
                /\ last' = [Done("as_destroy", a, "PANIC") EXCEPT !.path = "badfree"]
                /\ UNCHANGED <<as, live, asfree, l2, used, hist>>
           ELSE /\ used' = (used \ frames) \ TablesOf(pagetable)
                /\ l2' = [f \in Frames |-> IF f \in TablesOf(pagetable) THEN NULL ELSE l2[f]]
                /\ as' = [as EXCEPT ![a] = NoAs]
                /\ hist' = [hist EXCEPT ![a] = <<>>]
                /\ live' = live \ {a}
                /\ asfree' = asfree \cup {a}
                /\ last' = [Done("as_destroy", a, "VOID") EXCEPT
                               !.path = IF bad # {} THEN "badfree" ELSE ""]
                /\ UNCHANGED halted
    /\ UNCHANGED <<curas, framedata, tlb, pc, ipl, ctx>>

Next ==
    \/ \E a \in AsIds, in \in DefineInputs : as_define_region(a, in)
    \/ \E a \in AsIds : as_define_stack(a)
    \/ \E a \in AsIds : as_prepare_load(a)
    \/ \E a \in AsIds : as_complete_load(a)
    \/ as_complete_load_flush
    \/ \E a \in AsIds \cup {NOAS} : as_activate(a)
    \/ as_deactivate
    \/ \E k \in FaultKinds, v \in FaultAddrs, slot \in 0..(NUM_TLB - 1) : vm_fault(k, v, slot)
    \/ \E old \in AsIds : as_copy(old)
    \/ \E a \in AsIds, tolerant \in BOOLEAN : as_destroy(a, tolerant)

Spec == Init /\ [][Next]_vars

\* the same kernel with room on the heap for the address space of a forked child
InitFork ==
    /\ as = [a \in AsIds |-> NoAs]
    /\ live = {"as1"}
    /\ asfree = {"as2"}
    /\ curas = "as1"
    /\ l2 = [f \in Frames |-> NULL]
    /\ used = {}
    /\ framedata = [f \in Frames |-> "stale"]
    /\ tlb = InvalidTlb
    /\ pc = "idle"
    /\ halted = FALSE
    /\ last = Done("as_create", "as1", "OK")
    /\ hist = [a \in AsIds |-> <<>>]
    /\ ipl = IPL_NONE
    /\ ctx = NoCtx

\* the addresses the parent faults on before and after a fork: two pages under
\* one level-2 table, the second in the text and in the stack region
ForkFaultAddrs == {5 * PAGE_SIZE, USERSTACK - 1}

\* fork: the parent sets its address space up and takes page faults, as_copy
\* makes the child's, and either may then be loaded into; the process stays
\* the parent's throughout
NextFork ==
    \/ \E a \in AsIds, in \in DefineInputs : as_define_region(a, in)
    \/ \E a \in AsIds : as_define_stack(a)
    \/ \E a \in AsIds : as_prepare_load(a)
    \/ \E a \in AsIds : as_complete_load(a)
    \/ as_complete_load_flush
    \/ \E k \in {"READ", "WRITE"}, v \in ForkFaultAddrs, slot \in 0..(NUM_TLB - 1) :
          vm_fault(k, v, slot)
    \/ \E old \in AsIds : as_copy(old)

SpecFork == InitFork /\ [][NextFork]_vars

\* the loader: the calls load_elf and runprogram make on the address space of
\* the process, as_define_region with any segment an executable may describe
LoaderBases == {4 * PAGE_SIZE, 5 * PAGE_SIZE + 3, 7 * PAGE_SIZE + 1}
LoaderSizes == {0, PAGE_SIZE, PAGE_SIZE + 2}
LoaderFlags == {<<RF_R, 0, RF_X>>, <<RF_R, RF_W, 0>>}
LoaderInputs ==
    {[vaddr |-> b, memsize |-> m, readable |-> f[1], writeable |-> f[2], executable |-> f[3]] :
        b \in LoaderBases, m \in LoaderSizes, f \in LoaderFlags}
    \cup \* a segment without any permission
    {[vaddr |-> b, memsize |-> PAGE_SIZE, readable |-> 0, writeable |-> 0, executable |-> 0] :
        b \in LoaderBases}
LoaderFaultAddrs == {USERSTACK - 1}

NextLoader ==
    \/ \E a \in AsIds, in \in LoaderInputs : as_define_region(a, in)
    \/ \E a \in AsIds : as_define_stack(a)
    \/ \E a \in AsIds : as_prepare_load(a)
    \/ \E a \in AsIds : as_complete_load(a)
    \/ as_complete_load_flush
    \/ \E k \in {"READ", "WRITE"}, v \in LoaderFaultAddrs, slot \in 0..(NUM_TLB - 1) :
          vm_fault(k, v, slot)

SpecLoader == Init /\ [][NextLoader]_vars

\* the page tables pagetable_update meets: regions are defined, pages under
\* both level-2 tables are faulted in, and as_complete_load updates them
NextUpdate ==
    \/ \E a \in AsIds, in \in DefineInputs : as_define_region(a, in)
    \/ \E a \in AsIds : as_define_stack(a)
    \/ \E a \in AsIds : as_complete_load(a)
    \/ as_complete_load_flush
    \/ \E k \in {"READ", "WRITE"}, v \in FaultAddrs, slot \in 0..(NUM_TLB - 1) :
          vm_fault(k, v, slot)

SpecUpdate == Init /\ [][NextUpdate]_vars

\* ------------------------------------------------- vm_fault, step by step
\* vm_fault(READ or WRITE) on the current address space as a trap handler can
\* preempt it: interrupts are on from its pagetable_lookup to its splhigh, and
\* the handler (vm_fault itself, run to its end) works on the same page table.
PreemptAddrs == {5 * PAGE_SIZE, USERSTACK - 1}
\* what alloc_kpages(1) may hand to pagetable_insert: a page of zeros, or the
\* page of a level-2 table freed earlier, its entries still in it
StaleEntry == PAGE_SIZE + TLBLO_VALID
StalePages == {ZeroTable, [j \in 1..TABLE_SIZE |-> StaleEntry]}

\* pagetable_lookup returns 0 and the region scan finds a region
fault_begin(faultaddress) ==
    /\ Running /\ ctx.pc = "none"
    /\ curas # NOAS
    /\ as[curas].regions # <<>>
    /\ pagetable_lookup(as[curas].pagetable, l2, faultaddress) = 0
    /\ FindRegion(as[curas].regions, faultaddress) # 0
    /\ ctx' = [pc |-> "alloc", addr |-> faultaddress, entryLo |-> 0,
               i |-> FindRegion(as[curas].regions, faultaddress)]
    /\ UNCHANGED <<as, live, asfree, curas, l2, used, framedata, tlb, pc, halted, last,
                   hist, ipl>>

\* paddr = alloc_upages(1); entryLo = paddr | TLBLO_VALID (| TLBLO_DIRTY)
fault_alloc ==
    /\ Running /\ ctx.pc = "alloc"
    /\ used' = Take(used, AllocPage(used))
    /\ ctx' = [ctx EXCEPT !.pc = "insert",
                          !.entryLo = FreshEntry(AllocPage(used) * PAGE_SIZE,
                                                 as[curas].regions[ctx.i].permissions)]
    /\ UNCHANGED <<as, live, asfree, curas, l2, framedata, tlb, pc, halted, last, hist, ipl>>

\* pagetable_insert: if (pagetable[indexT1] == NULL) pagetable[indexT1] = alloc_kpages(1)
insert_link(stale) ==
    /\ Running /\ ctx.pc = "insert"
    /\ IF as[curas].pagetable[IndexT1(ctx.addr)] # 0
       THEN /\ ctx' = [ctx EXCEPT !.pc = "store"]
            /\ UNCHANGED <<as, l2, used, halted>>
       ELSE IF AllocPage(used) = 0
       THEN \* the zero fill stores through NULL
            /\ halted' = TRUE
            /\ UNCHANGED <<as, l2, used, ctx>>
       ELSE /\ as' = [as EXCEPT ![curas].pagetable[IndexT1(ctx.addr)] = AllocPage(used)]
            /\ l2' = [l2 EXCEPT ![AllocPage(used)] = stale]
            /\ used' = Take(used, AllocPage(used))
            /\ ctx' = [ctx EXCEPT !.pc = "zero", !.i = 0]
            /\ UNCHANGED halted
    /\ UNCHANGED <<live, asfree, curas, framedata, tlb, pc, last, hist, ipl>>

\* pagetable_insert: pagetable[indexT1][i] = 0, for one i of the loop
insert_zero ==
    /\ Running /\ ctx.pc = "zero"
    /\ l2' = [l2 EXCEPT ![as[curas].pagetable[IndexT1(ctx.addr)]][ctx.i + 1] = 0]
    /\ ctx' = IF ctx.i + 1 < TABLE_SIZE THEN [ctx EXCEPT !.i = @ + 1]
              ELSE [ctx EXCEPT !.pc = "store"]
    /\ UNCHANGED <<as, live, asfree, curas, used, framedata, tlb, pc, halted, last, hist, ipl>>

\* pagetable_insert: pagetable[indexT1][indexT2] = entry
insert_store ==
    /\ Running /\ ctx.pc = "store"
    /\ l2' = [l2 EXCEPT ![as[curas].pagetable[IndexT1(ctx.addr)]][IndexT2(ctx.addr) + 1] =
                            ctx.entryLo]
    /\ ctx' = [ctx EXCEPT !.pc = "tlb"]
    /\ UNCHANGED <<as, live, asfree, curas, used, framedata, tlb, pc, halted, last, hist, ipl>>

\* spl = splhigh(); tlb_random(faultaddress & TLBHI_VPAGE, entryLo); splx(spl); return 0
fault_tlb(slot) ==
    /\ Running /\ ctx.pc = "tlb"
    /\ tlb' = [tlb EXCEPT ![slot] = [hi |-> TlbHi(ctx.addr), lo |-> ctx.entryLo]]
    /\ ipl' = Masked(<<"tlb_random">>).ipl
    /\ last' = [Fault("OK", ctx.addr, "fresh") EXCEPT
                   !.events = Masked(<<"tlb_random">>).events]
    /\ ctx' = NoCtx
    /\ UNCHANGED <<as, live, asfree, curas, l2, used, framedata, pc, halted, hist>>

NextPreempt ==
    \/ \E a \in AsIds, in \in DefineInputs : as_define_region(a, in)
    \/ \E a \in AsIds : as_define_stack(a)
    \/ \E v \in PreemptAddrs : fault_begin(v)
    \/ fault_alloc
    \/ \E stale \in StalePages : insert_link(stale)
    \/ insert_zero
    \/ insert_store
    \/ \E slot \in 0..(NUM_TLB - 1) : fault_tlb(slot)
    \/ \* the trap handler
       \E k \in {"READ", "WRITE"}, v \in PreemptAddrs, slot \in 0..(NUM_TLB - 1) :
          vm_fault(k, v, slot)

SpecPreempt == Init /\ [][NextPreempt]_vars

\* the kernel code around the operations raises and lowers the interrupt
\* priority: thread_switch calls as_activate at IPL_HIGH, a trap taken with
\* interrupts off calls vm_fault at IPL_HIGH
set_ipl(level) ==
    /\ Running
    /\ level # ipl
    /\ ipl' = level
    /\ last' = Done("splx", curas, "VOID")
    /\ UNCHANGED <<as, live, asfree, curas, l2, used, framedata, tlb, pc, halted, hist, ctx>>

NextSpl ==
    \/ \E level \in {IPL_NONE, IPL_HIGH} : set_ipl(level)
    \/ \E a \in AsIds, in \in DefineInputs : as_define_region(a, in)
    \/ \E a \in AsIds : as_define_stack(a)
    \/ \E a \in AsIds : as_prepare_load(a)
    \/ \E a \in AsIds : as_complete_load(a)
    \/ as_complete_load_flush
    \/ \E a \in AsIds \cup {NOAS} : as_activate(a)
    \/ as_deactivate
    \/ \E k \in FaultKinds, v \in ForkFaultAddrs, slot \in 0..(NUM_TLB - 1) : vm_fault(k, v, slot)
    \/ \E old \in AsIds : as_copy(old)
    \/ \E a \in AsIds, tolerant \in BOOLEAN : as_destroy(a, tolerant)

SpecSpl == Init /\ [][NextSpl]_vars

\* ============================================================== properties
\* the user pages, and the entry pagetable_lookup gives for a page of a
Pages == 0..((MIPS_KSEG0 \div PAGE_SIZE) - 1)
PteOf(a, p) == pagetable_lookup(as[a].pagetable, l2, p * PAGE_SIZE)
\* the regions of a that contain page p and whose permission word has bit b
RegionsWith(a, p, b) ==
    {k \in 1..Len(as[a].regions) :
        InRegion(as[a].regions[k], p * PAGE_SIZE) /\ BitAnd(as[a].regions[k].permissions, b) # 0}
\* every region of a is between its as_prepare_load and the matching as_complete_load
Loading(a) ==
    /\ as[a].regions # <<>>
    /\ \A k \in 1..Len(as[a].regions) : hist[a][k].load = "loading"
\* the step is a vm_fault(READ or WRITE) that got as far as the page table
FaultStep ==
    /\ last'.op = "vm_fault"
    /\ last'.path \in {"assert", "hit", "noregion", "fresh"}
\* address v lies in no region of the current address space
InNoRegion(v) ==
    \A k \in 1..Len(as[curas].regions) :
        \/ v < as[curas].regions[k].reg_vbase
        \/ v >= as[curas].regions[k].reg_vbase
                    + as[curas].regions[k].reg_npages * PAGE_SIZE
\* as_complete_load has returned
CompleteReturned == last.op = "as_complete_load" /\ last.ret = "OK"

\* C1: in every reachable state, every page whose PTE has DIRTY set lies in a
\* region whose current permission word includes RF_W.
C1_DirtyInWritableRegion ==
    \A a \in live : \A p \in Pages :
        HasBit(PteOf(a, p), TLBLO_DIRTY) => RegionsWith(a, p, RF_W) # {}

\* C2: pagetable_update is a one-directional clear: applied to any region of
\* any reachable address space, it leaves every non-zero PTE of the range with
\* DIRTY = 0, whatever the bit was before.
C2_UpdateClearsDirty ==
    \A a \in live : \A k \in 1..Len(as[a].regions) :
        LET reg == as[a].regions[k]
            mem == pagetable_update(as[a].pagetable, l2, reg.reg_vbase, reg.reg_npages)
        IN  UpdateAsserts(reg.reg_vbase, reg.reg_npages) =>
                \A p \in Pages :
                    InRegion(reg, p * PAGE_SIZE) =>
                        ~HasBit(pagetable_lookup(as[a].pagetable, mem, p * PAGE_SIZE),
                                TLBLO_DIRTY)

\* C3 as stated: after as_complete_load returns, whatever came before it, every
\* region's permission word equals the r|w|x it was defined with.
C3_RestoredAfterAnySequence ==
    CompleteReturned =>
        \A k \in 1..Len(as[last.as].regions) :
            as[last.as].regions[k].permissions = hist[last.as][k].defined

\* C3 amended: a region that has only ever seen matched pairs of
\* as_prepare_load and as_complete_load (it was defined before each
\* as_prepare_load that touched it) holds exactly its defined r|w|x outside a
\* load, vm_fault calls in between or not, and holds that word shifted left by
\* three with RF_R | RF_W in the low bits during a load.
C3_RestoredAfterMatchedLoad ==
    \A a \in live : \A k \in 1..Len(as[a].regions) :
        /\ hist[a][k].load = "defined" =>
              as[a].regions[k].permissions = hist[a][k].defined
        /\ hist[a][k].load = "loading" =>
              as[a].regions[k].permissions = hist[a][k].defined * 8 + RF_R + RF_W

\* C3 witness: as_complete_load has returned on a text and a stack region, both
\* restored by a matched load during which a page was faulted in.
C3_Witness ==
    /\ CompleteReturned
    /\ Len(as[last.as].regions) = 2
    /\ \A k \in 1..2 : hist[last.as][k].load = "defined"
    /\ as[last.as].regions[1].permissions = RF_R + RF_X
    /\ as[last.as].regions[2].permissions = RF_R + RF_W
    /\ \E p \in Pages : PteOf(last.as, p) # 0

\* C4: between as_prepare_load and the following as_complete_load every region
\* shows R and W in its low three permission bits, and the PTE present for a
\* page after a successful vm_fault on it has DIRTY set, whether or not the PTE
\* was installed before as_prepare_load.
C4_WritableDuringLoad ==
    (last.op = "vm_fault" /\ last.ret = "OK" /\ Loading(last.as)) =>
        /\ \A k \in 1..Len(as[last.as].regions) :
              as[last.as].regions[k].permissions % 8 = RF_R + RF_W
        /\ HasBit(PteOf(last.as, last.addr \div PAGE_SIZE), TLBLO_DIRTY)

\* C5: the step that ends as_complete_load leaves every TLB slot i holding
\* (TLBHI_INVALID(i), TLBLO_INVALID()) and touches no PTE and no region; the
\* step that restores the regions and updates the PTEs comes before it and
\* leaves the TLB alone.
C5_FlushAfterUpdates ==
    [][ /\ pc = "flush" =>
              /\ \A i \in 0..(NUM_TLB - 1) :
                    tlb'[i] = [hi |-> TLBHI_INVALID(i), lo |-> TLBLO_INVALID]
              /\ last'.op = "as_complete_load" /\ last'.ret = "OK"
              /\ pc' = "idle"
              /\ UNCHANGED <<as, l2>>
        /\ pc' = "flush" => (pc = "idle" /\ UNCHANGED tlb) ]_vars

\* C5 witness: as_complete_load has restored a region to a word without RF_W
\* and cleared DIRTY in its PTE, and the TLB still holds the DIRTY entry that a
\* fault during the load put there.
C5_Witness ==
    /\ pc = "flush"
    /\ \E i \in 0..(NUM_TLB - 1) :
          /\ tlb[i].hi < MIPS_KSEG0
          /\ HasBit(tlb[i].lo, TLBLO_DIRTY)
          /\ RegionsWith(last.as, tlb[i].hi \div PAGE_SIZE, RF_W) = {}
          /\ PteOf(last.as, tlb[i].hi \div PAGE_SIZE) # 0
          /\ ~HasBit(PteOf(last.as, tlb[i].hi \div PAGE_SIZE), TLBLO_DIRTY)

\* C6 as stated: for every address space, one with an empty region list
\* included, vm_fault(READ or WRITE) on an address in no region and without a
\* PTE returns EFAULT, allocates nothing and leaves page table, regions and
\* TLB unchanged.
C6_NoRegionIsEfault ==
    [][ ( /\ FaultStep
          /\ InNoRegion(last'.addr)
          /\ pagetable_lookup(as[curas].pagetable, l2, last'.addr) = 0 )
        => (last'.ret = "EFAULT" /\ UNCHANGED <<as, l2, used, tlb>>) ]_vars

\* C6 amended: the same for every address space whose region list is not empty.
C6_NoRegionIsEfaultWithRegions ==
    [][ ( /\ FaultStep
          /\ as[curas].regions # <<>>
          /\ InNoRegion(last'.addr)
          /\ pagetable_lookup(as[curas].pagetable, l2, last'.addr) = 0 )
        => (last'.ret = "EFAULT" /\ UNCHANGED <<as, l2, used, tlb>>) ]_vars

\* C6 witness: vm_fault has returned EFAULT for an address below the only
\* region, while a frame was free for it.
C6_Witness ==
    /\ last.op = "vm_fault" /\ last.path = "noregion" /\ last.ret = "EFAULT"
    /\ as[last.as].regions # <<>>
    /\ last.as = curas /\ InNoRegion(last.addr)
    /\ AllocPage(used) # 0

\* C7: when alloc_upages, or the alloc_kpages of pagetable_insert, fails in a
\* fresh-page vm_fault, vm_fault returns ENOMEM, installs no PTE, does not
\* write the TLB and keeps no frame.
C7_AllocFailureIsEnomem ==
    [][ ( /\ FaultStep
          /\ last'.path = "fresh"
          /\ \/ AllocPage(used) = 0
             \/ /\ as[curas].pagetable[IndexT1(last'.addr)] = 0
                /\ AllocPage(Take(used, AllocPage(used))) = 0 )
        => (last'.ret = "ENOMEM" /\ UNCHANGED <<as, l2, used, tlb>>) ]_vars

\* C8: a vm_fault(READ or WRITE) on an address without a PTE that lies in a
\* region, and that does not stop the kernel, returns 0 and installs
\* paddr | TLBLO_VALID, paddr being what alloc_upages returned, with
\* TLBLO_DIRTY exactly when the first region in list order that contains the
\* address has RF_W; pagetable_lookup of every address of the page then
\* returns that entry.
C8_FreshEntry ==
    [][ (FaultStep /\ last'.path = "fresh" /\ last'.ret # "PANIC") =>
          LET v == last'.addr
              regions == as[curas].regions
              paddr == AllocPage(used) * PAGE_SIZE
          IN  /\ last'.ret = "OK"
              /\ pagetable_lookup(as[curas].pagetable, l2, v) = 0
              /\ \E k \in 1..Len(regions) :
                    /\ InRegion(regions[k], v)
                    /\ \A m \in 1..(k - 1) : ~InRegion(regions[m], v)
                    /\ \A w \in PageFrame(v)..(PageFrame(v) + PAGE_SIZE - 1) :
                          pagetable_lookup(as'[curas].pagetable, l2', w) =
                              paddr + TLBLO_VALID
                                + (IF BitAnd(regions[k].permissions, RF_W) # 0
                                   THEN TLBLO_DIRTY ELSE 0) ]_vars

\* C8 witness: a fault on the last page, which the text region (defined first,
\* no RF_W) and the stack region (RF_W) both contain, has mapped a frame
\* without DIRTY.
C8_Witness ==
    /\ last.op = "vm_fault" /\ last.path = "fresh" /\ last.ret = "OK"
    /\ last.addr = USERSTACK - 1
    /\ Len(as[last.as].regions) = 2
    /\ as[last.as].regions[1].permissions = RF_R + RF_X
    /\ as[last.as].regions[2].permissions = RF_R + RF_W
    /\ PteOf(last.as, last.addr \div PAGE_SIZE) \div PAGE_SIZE \in Frames
    /\ ~HasBit(PteOf(last.as, last.addr \div PAGE_SIZE), TLBLO_DIRTY)

\* C9: every frame that a PTE of a user address space maps is all zero from the
\* moment the PTE is visible.
C9_MappedFramesAreZero ==
    \A a \in live : \A p \in Pages :
        (PteOf(a, p) # 0 /\ PteOf(a, p) \div PAGE_SIZE \in Frames) =>
            framedata[PteOf(a, p) \div PAGE_SIZE] = "zero"

\* C10: no physical frame is referenced by two non-zero PTEs, of one address
\* space or of two.
C10_NoSharedFrame ==
    \A a, b \in live : \A p, q \in Pages :
        (PteOf(a, p) # 0 /\ PteOf(b, q) # 0 /\ <<a, p>> # <<b, q>>) =>
            PteOf(a, p) \div PAGE_SIZE # PteOf(b, q) \div PAGE_SIZE

\* the step is an as_destroy
DestroyStep == last'.op = "as_destroy"

\* C13: as_destroy releases every resource of the address space exactly once:
\* every free_kpages names a frame the allocator holds at that moment, the
\* count of frames in use falls by exactly the number of non-zero PTEs plus the
\* number of level-2 tables (the level-1 table goes with the record), and the
\* region records and the record itself go back to the heap.
C13_DestroyFreesEachOnce ==
    [][ DestroyStep =>
          LET pagetable == as[last'.as].pagetable
          IN  /\ last'.ret = "VOID"
              /\ BadFrees(pagetable, l2, used) = {}
              /\ Cardinality(used) - Cardinality(used') =
                    Cardinality(EntriesOf(pagetable, l2)) + Cardinality(TablesOf(pagetable))
              /\ last'.as \in asfree'
              /\ as'[last'.as].regions = <<>> ]_vars

\* C14 as stated: after as_activate or as_deactivate returns, whatever the
\* current process's address space was at the call, every TLB slot is invalid.
C14_FlushedAfterSwitch ==
    last.op \in {"as_activate", "as_deactivate"} => tlb = InvalidTlb

\* C14 amended: after as_activate or as_deactivate returns in a process that has
\* an address space, every TLB slot i holds (TLBHI_INVALID(i), TLBLO_INVALID());
\* in a process without one the TLB is left as it was.
C14_FlushedAfterSwitchWithAs ==
    [][ last'.op \in {"as_activate", "as_deactivate"} =>
          IF last'.as # NOAS
          THEN \A i \in 0..(NUM_TLB - 1) :
                  tlb'[i] = [hi |-> TLBHI_INVALID(i), lo |-> TLBLO_INVALID]
          ELSE tlb' = tlb ]_vars

\* C14 witness: as_deactivate has returned in a process whose address space has
\* a page that a fault had put in the TLB, and the TLB is empty.
C14_Witness ==
    /\ last.op = "as_deactivate"
    /\ last.as \in live
    /\ \E p \in Pages : PteOf(last.as, p) # 0
    /\ tlb = InvalidTlb

\* a step in which vm_fault returned or halted the kernel
FaultReturned == last'.op = "vm_fault"

\* C17: vm_fault decides on the fault kind before it looks at anything else:
\* READONLY returns EFAULT and a kind other than READONLY, READ, WRITE returns
\* EINVAL, whatever the current address space is (none, mapped or not), with
\* page table, regions, allocator and TLB unchanged; READ or WRITE without a
\* current address space returns EFAULT, again with nothing changed.
C17_RejectsByKind ==
    [][ FaultReturned =>
        \A k \in FaultKinds, v \in FaultAddrs, slot \in 0..(NUM_TLB - 1) :
          /\ k = "READONLY" =>
                (vm_fault(k, v, slot) =>
                    (last'.ret = "EFAULT" /\ UNCHANGED <<as, l2, used, tlb, halted>>))
          /\ k \notin {"READONLY", "READ", "WRITE"} =>
                (vm_fault(k, v, slot) =>
                    (last'.ret = "EINVAL" /\ UNCHANGED <<as, l2, used, tlb, halted>>))
          /\ (k \in {"READ", "WRITE"} /\ curas = NOAS) =>
                (vm_fault(k, v, slot) =>
                    (last'.ret = "EFAULT" /\ UNCHANGED <<as, l2, used, tlb, halted>>)) ]_vars

\* C17 witness: vm_fault has returned EINVAL for an unknown kind in a process
\* without an address space, the TLB still holding an entry of the one before.
C17_Witness ==
    /\ last.op = "vm_fault" /\ last.path = "badtype" /\ last.ret = "EINVAL"
    /\ curas = NOAS
    /\ tlb # InvalidTlb

\* the entries the round trip of C15 is tried with: 0, and the lowest and the
\* highest frame of the machine with TLBLO_VALID, with and without TLBLO_DIRTY
InsertEntries ==
    {0} \cup {f * PAGE_SIZE + TLBLO_VALID + d :
                 f \in {0, BootFrames + KernelFrames}, d \in {0, TLBLO_DIRTY}}
\* one address on every user page, at a different offset from page to page
InsertAddrs == {p * PAGE_SIZE + (p % PAGE_SIZE) : p \in Pages}

\* C15: in every reachable page table, for every address below MIPS_KSEG0 and
\* every entry, pagetable_lookup after a pagetable_insert that returned gives
\* back the entry (whether the level-2 table existed or was allocated by the
\* insert, and whether or not the page had an entry before), and leaves the
\* entries of the other pages as they were; pagetable_lookup of an address
\* whose level-2 table or entry is absent gives 0.  pagetable_lookup is an
\* operator on the table: it has no effect on it.  (An insert whose level-2
\* allocation fails does not return: see C7.)
C15_LookupAfterInsert ==
    \A a \in live : \A v \in InsertAddrs :
        LET pagetable == as[a].pagetable
            page == AllocPage(used)
        IN  /\ (pagetable[IndexT1(v)] # 0 \/ page # 0) =>
                  \A entry \in InsertEntries :
                      LET r == pagetable_insert(pagetable, l2, v, entry, page)
                      IN  /\ pagetable_lookup(r.pagetable, r.mem, v) = entry
                          /\ \A w \in InsertAddrs \ {v} :
                                pagetable_lookup(r.pagetable, r.mem, w) =
                                    pagetable_lookup(pagetable, l2, w)
            /\ (\/ pagetable[IndexT1(v)] = 0
                \/ l2[pagetable[IndexT1(v)]][IndexT2(v) + 1] = 0) =>
                  pagetable_lookup(pagetable, l2, v) = 0

\* C15 witness: vm_fault has just inserted an entry, so that its level-2 table
\* exists, holds that entry and holds an empty slot, and another level-2 table
\* is absent.
C15_Witness ==
    /\ last.op = "vm_fault" /\ last.path = "fresh" /\ last.ret = "OK"
    /\ PteOf(last.as, last.addr \div PAGE_SIZE) # 0
    /\ \E p \in Pages :
          /\ IndexT1(p * PAGE_SIZE) = IndexT1(last.addr)
          /\ PteOf(last.as, p) = 0
    /\ \E p \in Pages : as[last.as].pagetable[IndexT1(p * PAGE_SIZE)] = 0

\* C16: in every state reached through as_define_region, as_define_stack,
\* vm_fault, as_copy, as_prepare_load and as_complete_load, every non-zero
\* entry pagetable_lookup returns, in the parent's page table, in the child's
\* and in one as_copy left half built, has TLBLO_VALID set.
C16_NonZeroEntryIsValid ==
    \A a \in AsIds : \A v \in InsertAddrs :
        pagetable_lookup(as[a].pagetable, l2, v) # 0 =>
            HasBit(pagetable_lookup(as[a].pagetable, l2, v), TLBLO_VALID)

\* C16 witness: as_copy has returned 0 and the child holds an entry with
\* TLBLO_DIRTY on a page of a region without RF_W: vm_fault installed it in
\* the parent, as_complete_load toggled its dirty bit and as_copy copied it.
C16_Witness ==
    /\ last.op = "as_copy" /\ last.ret = "OK"
    /\ last.path \in live
    /\ \E p \in Pages :
          /\ PteOf(last.path, p) # 0
          /\ HasBit(PteOf(last.path, p), TLBLO_DIRTY)
          /\ HasBit(PteOf(last.as, p), TLBLO_DIRTY)
          /\ RegionsWith(last.path, p, RF_R) # {}
          /\ RegionsWith(last.path, p, RF_W) = {}

\* a step in which as_copy returned 0: last'.as is old, last'.path the new
\* address space
CopyReturnedOk == last'.op = "as_copy" /\ last'.ret = "OK"

\* C11: whenever as_copy(old) returns 0, between as_prepare_load and
\* as_complete_load of old included, the new address space has as many regions
\* as old, in the same order, each with the reg_vbase, the reg_npages and the
\* permission word of old's, and it has a non-zero page table entry at exactly
\* the pages where old has one, with the same TLBLO_VALID and TLBLO_DIRTY bits.
C11_CopyIsIdentical ==
    [][ CopyReturnedOk =>
          LET old == as[last'.as]
              new == as'[last'.path]
          IN  /\ Len(new.regions) = Len(old.regions)
              /\ \A k \in 1..Len(old.regions) :
                    /\ new.regions[k].reg_vbase = old.regions[k].reg_vbase
                    /\ new.regions[k].reg_npages = old.regions[k].reg_npages
                    /\ new.regions[k].permissions = old.regions[k].permissions
              /\ \A v \in InsertAddrs :
                    LET o == pagetable_lookup(old.pagetable, l2, v)
                        n == pagetable_lookup(new.pagetable, l2', v)
                    IN  /\ (n # 0) = (o # 0)
                        /\ HasBit(n, TLBLO_VALID) = HasBit(o, TLBLO_VALID)
                        /\ HasBit(n, TLBLO_DIRTY) = HasBit(o, TLBLO_DIRTY) ]_vars

\* a step in which as_copy returned an error
CopyFailed == last'.op = "as_copy" /\ last'.ret # "OK"

\* C12: whenever as_copy(old) fails, it returns ENOMEM, and the address space
\* record, the region records, the level-2 tables and the frames it had
\* allocated for the new address space are released again: the heap and the
\* page allocator hold what they held before the call; old, its regions and
\* its page table entries are unchanged.
C12_FailedCopyReleasesAll ==
    [][ CopyFailed =>
          /\ last'.ret = "ENOMEM"
          /\ asfree' = asfree
          /\ RegionRecords' = RegionRecords
          /\ used' = used
          /\ as'[last'.as] = as[last'.as]
          /\ \A v \in InsertAddrs :
                pagetable_lookup(as'[last'.as].pagetable, l2', v) =
                    pagetable_lookup(as[last'.as].pagetable, l2, v) ]_vars

\* a step in which as_define_region returned
DefineReturned == last'.op = "as_define_region"
\* the least number of pages from base on that reach end
RECURSIVE LeastPages(_, _, _)
LeastPages(base, end, n) ==
    IF base + n * PAGE_SIZE >= end THEN n ELSE LeastPages(base, end, n + 1)

CompleteStep == last'.op = "as_complete_load" /\ last'.ret \in {"RUNNING", "PANIC"}
\* the regions of address space a for which as_complete_load calls
\* pagetable_update with a range that ends above MIPS_KSEG0
PastKseg(a) ==
    {k \in 1..Len(as[a].regions) :
        /\ ~HasBit(CompleteWord(as[a].regions[k].permissions), RF_W)
        /\ as[a].regions[k].reg_vbase + as[a].regions[k].reg_npages * PAGE_SIZE > MIPS_KSEG0}

\* C20: when as_complete_load calls pagetable_update for a region whose range
\* ends above MIPS_KSEG0, pagetable_update returns an error to it with the
\* page table entries of that range as they were, and as_complete_load goes on
\* or returns the error: the kernel is not halted.
C20_UpdatePastKsegReturns ==
    [][ (CompleteStep /\ PastKseg(last'.as) # {}) =>
          /\ last'.ret # "PANIC"
          /\ ~halted'
          /\ \A k \in PastKseg(last'.as) : \A v \in InsertAddrs :
                (/\ InRegion(as[last'.as].regions[k], v)
                 /\ \A m \in 1..Len(as[last'.as].regions) :
                       m # k => ~InRegion(as[last'.as].regions[m], v)) =>
                    pagetable_lookup(as'[last'.as].pagetable, l2', v) =
                        pagetable_lookup(as[last'.as].pagetable, l2, v) ]_vars

\* the region as_define_stack is to add, and the addresses it spans
StackRegion ==
    [reg_vbase |-> USERSTACK - STACK_NPAGES * PAGE_SIZE, reg_npages |-> STACK_NPAGES,
     permissions |-> RF_R + RF_W]
InStack(v) == v >= USERSTACK - STACK_NPAGES * PAGE_SIZE /\ v < USERSTACK
\* the regions of a that as_define_stack added
StackRegions(a) ==
    {k \in 1..Len(as[a].regions) :
        /\ as[a].regions[k].reg_vbase = StackRegion.reg_vbase
        /\ as[a].regions[k].reg_npages = StackRegion.reg_npages
        /\ hist[a][k].defined = StackRegion.permissions}
\* a step in which as_define_stack returned: it has set *stackptr to USERSTACK
\* and, if it returned 0, added the stack region at the tail of the list
DefineStackStep ==
    last'.op = "as_define_stack" =>
        /\ last'.addr = USERSTACK
        /\ last'.ret = "OK" =>
              as'[last'.as].regions = Append(as[last'.as].regions, StackRegion)

StackFirst(a, v) ==
    \E k \in StackRegions(a) :
        /\ hist[a][k].load # "broken"
        /\ \A m \in 1..(k - 1) :
              \/ v < as[a].regions[m].reg_vbase
              \/ v >= as[a].regions[m].reg_vbase + as[a].regions[m].reg_npages * PAGE_SIZE

C25_HitLoadsEntry ==
    [][ (FaultStep /\ as[curas].regions # <<>>
                   /\ pagetable_lookup(as[curas].pagetable, l2, last'.addr) # 0) =>
          LET v == last'.addr
              entry == pagetable_lookup(as[curas].pagetable, l2, v)
          IN  /\ last'.ret = "OK"
              /\ used' = used
              /\ as' = as
              /\ l2' = l2
              /\ ~halted'
              /\ \E slot \in 0..(NUM_TLB - 1) :
                    /\ tlb'[slot] = [hi |-> v - (v % PAGE_SIZE), lo |-> entry]
                    /\ \A o \in (0..(NUM_TLB - 1)) \ {slot} : tlb'[o] = tlb[o] ]_vars

\* C25 witness: a second fault on an address inside a page, after the fault
\* that mapped it, has returned 0 and the TLB holds the page and its entry.
C25_Witness ==
    /\ last.op = "vm_fault" /\ last.path = "hit" /\ last.ret = "OK"
    /\ last.addr % PAGE_SIZE # 0
    /\ PteOf(last.as, last.addr \div PAGE_SIZE) \div PAGE_SIZE \in Frames
    /\ \E slot \in 0..(NUM_TLB - 1) :
          /\ tlb[slot].hi = (last.addr \div PAGE_SIZE) * PAGE_SIZE
          /\ tlb[slot].lo = PteOf(last.as, last.addr \div PAGE_SIZE)

\* C26: whenever no operation is under way, every valid TLB entry of a user
\* page holds the non-zero page table entry that the current address space
\* has for that page now: none is left from an address space that is no
\* longer current or was destroyed, and none has TLBLO_DIRTY where the page
\* table entry has it clear.
C26_TlbCoherent ==
    (pc = "idle" /\ ~halted) =>
        \A slot \in 0..(NUM_TLB - 1) :
            (HasBit(tlb[slot].lo, TLBLO_VALID) /\ tlb[slot].hi < MIPS_KSEG0) =>
                /\ curas # NOAS
                /\ pagetable_lookup(as[curas].pagetable, l2, tlb[slot].hi) # 0
                /\ tlb[slot].lo = pagetable_lookup(as[curas].pagetable, l2, tlb[slot].hi)

\* an entry without its TLBLO_DIRTY bit
WithoutDirty(entry) == IF HasBit(entry, TLBLO_DIRTY) THEN entry - TLBLO_DIRTY ELSE entry

\* C24: in every reachable page table, pagetable_update(vbase, npages) for
\* every page-aligned vbase and every npages with vbase + npages*PAGE_SIZE <=
\* MIPS_KSEG0 comes to an end and changes exactly the non-zero entries of the
\* pages in [vbase, vbase + npages*PAGE_SIZE): each of them differs from what
\* it was in TLBLO_DIRTY and in no other bit, whether or not level-2 tables
\* before it are absent; the entries of pages outside the range and the zero
\* entries are as they were, and kernel memory outside the level-2 tables of
\* the page table (a level-2 table that is absent stays absent) is untouched.
C24_UpdateTouchesRangeOnly ==
    \A a \in live : \A b \in Pages : \A n \in 0..((MIPS_KSEG0 \div PAGE_SIZE) - b) :
        LET pagetable == as[a].pagetable
            mem == pagetable_update(pagetable, l2, b * PAGE_SIZE, n)
        IN  /\ \A p \in Pages :
                  LET before == pagetable_lookup(pagetable, l2, p * PAGE_SIZE)
                      after == pagetable_lookup(pagetable, mem, p * PAGE_SIZE)
                  IN  IF p >= b /\ p < b + n /\ before # 0
                      THEN /\ after # before
                           /\ WithoutDirty(after) = WithoutDirty(before)
                      ELSE after = before
            /\ \A f \in Frames : f \notin TablesOf(pagetable) => mem[f] = l2[f]

\* C24 witness: as_complete_load has run pagetable_update over a region that
\* begins under an absent level-2 table and goes on under one that holds an
\* entry next to an empty slot; that entry has had its dirty bit toggled.
C24_Witness ==
    /\ last.op = "as_complete_load" /\ last.ret = "OK"
    /\ as[last.as].regions # <<>>
    /\ as[last.as].pagetable[IndexT1(as[last.as].regions[1].reg_vbase)] = 0
    /\ \E p, q \in Pages :
          /\ InRegion(as[last.as].regions[1], p * PAGE_SIZE)
          /\ IndexT1(p * PAGE_SIZE) = IndexT1(q * PAGE_SIZE)
          /\ PteOf(last.as, q) = 0
          /\ PteOf(last.as, p) # 0
          /\ HasBit(PteOf(last.as, p), TLBLO_DIRTY)
          /\ RegionsWith(last.as, p, RF_W) = {}

\* the calls the operation that ran last made, in order
EventNames == [i \in 1..Len(last.events) |-> last.events[i].ev]

\* C21: every tlb_random and tlb_write runs at IPL_HIGH and the TLB changes
\* only through them; every operation (vm_fault, as_activate, as_deactivate,
\* as_complete_load, and those that do not touch the TLB) returns with the
\* interrupt priority it was entered with, whether that was IPL_NONE or
\* IPL_HIGH; and in vm_fault splhigh is followed by the one tlb_random and by
\* splx and nothing else, alloc_upages and alloc_kpages having run before it.
C21_TlbWritesMasked ==
    [][ last'.op # "splx" =>
          /\ ipl' = ipl
          /\ \A i \in 1..Len(last'.events) :
                last'.events[i].ev \in {"tlb_random", "tlb_write"} =>
                    last'.events[i].ipl = IPL_HIGH
          /\ tlb' # tlb =>
                \E i \in 1..Len(last'.events) :
                    last'.events[i].ev \in {"tlb_random", "tlb_write"}
          /\ last'.op = "vm_fault" =>
                \A i \in 1..Len(last'.events) :
                    /\ last'.events[i].ev = "tlb_random" =>
                          (i > 1 /\ last'.events[i - 1].ev = "splhigh")
                    /\ last'.events[i].ev = "splhigh" =>
                          /\ i + 2 = Len(last'.events)
                          /\ last'.events[i + 1].ev = "tlb_random"
                          /\ last'.events[i + 2].ev = "splx" ]_vars

\* C21 witness: vm_fault was entered at IPL_HIGH, allocated a frame and a
\* level-2 table, loaded the TLB and has returned at IPL_HIGH.
C21_Witness ==
    /\ last.op = "vm_fault" /\ last.path = "fresh" /\ last.ret = "OK"
    /\ ipl = IPL_HIGH
    /\ EventNames = <<"alloc_upages", "alloc_kpages", "splhigh", "tlb_random", "splx">>
    /\ last.events[4].ipl = IPL_HIGH

\* C22: a level-2 table is linked into its level-1 slot only when all its
\* entries are zero, but for an entry the same vm_fault has installed by then;
\* so a handler that preempts pagetable_insert and looks the page table up
\* finds nothing in it but zeros and installed entries.
C22_LinkedTableIsZeroed ==
    [][ \A a \in AsIds : \A i \in 0..(TABLE_SIZE - 1) :
          (as[a].pagetable[i] = 0 /\ as'[a].pagetable[i] # 0) =>
              \A j \in 1..TABLE_SIZE :
                  \/ l2'[as'[a].pagetable[i]][j] = 0
                  \/ /\ last'.op = "vm_fault" /\ last'.ret = "OK"
                     /\ i = IndexT1(last'.addr)
                     /\ j = IndexT2(last'.addr) + 1 ]_vars

\* C23: the slot pagetable_insert writes for vm_fault holds 0 just before the
\* write, also when another vm_fault on the same address space ran between
\* the pagetable_lookup that missed and the pagetable_insert.
C23_InsertWritesEmptySlot ==
    [][ (ctx.pc = "store" /\ ctx'.pc = "tlb") =>
          pagetable_lookup(as[curas].pagetable, l2, ctx.addr) = 0 ]_vars

====
